---- MODULE Spec2Model ----
(***************************************************************************)
(* A model of the log-analysis core of CyberScope:                         *)
(*   - EnhancedLogPreprocessor (src/enhanced_preprocessing.py): message    *)
(*     normalisation, categorical encoding, feature assembly, persistence  *)
(*   - EnhancedLogAnalysisModel (src/enhanced_model.py): the model bank    *)
(* Strings are sequences of one-character strings.                         *)
(***************************************************************************)
EXTENDS Integers, Sequences, FiniteSets, TLC

VARIABLES
    message,                \* clean_log_message: the argument of the call
    once,                   \* clean_log_message(message)
    twice,                  \* clean_log_message(once)
    cstage,                 \* how far the normaliser run has got
    label_encoders,         \* self.label_encoders: column -> LabelEncoder state
    enc_ret,                \* result of the last encode_categorical_features call
    enc_start,              \* label_encoders when the concurrent calls began
    pc,                     \* concurrent encode calls: position of each thread
    t_df,                   \* concurrent encode calls: each thread's column
    known_values,           \* concurrent encode calls: each thread's known_values
    t_ret,                  \* concurrent encode calls: each thread's result
    tfidf_vectorizer,       \* self.tfidf_vectorizer
    scaler,                 \* self.scaler
    use_bert,               \* self.use_bert
    pkl,                    \* preprocessor_objects.pkl (and the .npy files beside it)
    ret,                    \* result of the last preprocess_logs / load call
    calls,                  \* number of preprocess_logs calls made so far
    tfidf_fits,             \* number of fit_transform calls that fitted a vocabulary
    s_pc,                   \* concurrent scoring calls: position of each thread
    s_req,                  \* concurrent scoring calls: each thread's method and model_name
    s_model,                \* concurrent scoring calls: each thread's local model
    s_ret,                  \* concurrent scoring calls: each thread's result
    MOCK_ALERTS,            \* alerts.py: the in-memory alert collection
    alert_ret,              \* alerts.py: the response to the last request
    alert_requests,         \* alerts.py: number of requests served so far
    classification_models,  \* self.classification_models
    anomaly_models,         \* self.anomaly_models
    trainings,              \* number of training calls made so far
    train_ret,              \* result of the last training call on the model bank
    cls_order,              \* insertion order of the keys of classification_models
    ano_order,              \* insertion order of the keys of anomaly_models
    model_performance,      \* self.model_performance
    is_trained,             \* self.is_trained
    tunings,                \* number of hyperparameter_tuning calls made so far
    call_ret,               \* result of the last other call on the model bank
    cls_files,              \* <prefix>_classification_<name>.pkl on disk
    ano_files,              \* <prefix>_anomaly_<name>.pkl on disk
    perf_file,              \* <prefix>_performance.pkl on disk
    saves,                  \* number of save_models calls made so far
    timestamps,             \* extract_temporal_features: the timestamps argument
    temporal_ret,           \* extract_temporal_features(timestamps)
    temporal_again          \* the same call made a second time

cleanVars == <<message, once, twice, cstage>>
encVars   == <<label_encoders, enc_ret, enc_start>>
concVars  == <<pc, t_df, known_values, t_ret>>
preVars   == <<tfidf_vectorizer, scaler, use_bert, pkl, ret, calls, tfidf_fits>>
bankVars  == <<cls_order, ano_order, model_performance, is_trained, tunings, call_ret>>
diskVars  == <<cls_files, ano_files, perf_file, saves>>
modelVars == <<classification_models, anomaly_models, trainings, train_ret,
               bankVars, diskVars>>
temporalVars == <<timestamps, temporal_ret, temporal_again>>
scoreVars == <<s_pc, s_req, s_model, s_ret>>
alertVars == <<MOCK_ALERTS, alert_ret, alert_requests>>
otherVars == <<temporalVars, scoreVars, alertVars>>
vars == <<cleanVars, encVars, concVars, preVars, modelVars, otherVars>>

-----------------------------------------------------------------------------
(* Bounds of the model                                                      *)

MaxMsgLen == 3
MaxEncRows == 2
MaxPreRows == 3
MaxVocab == 1
MaxCalls == 2
MaxTrainings == 3
MaxTunings == 2
MaxSaves == 2
MaxTsRows == 2
MaxScorers == 2
MaxAlertRequests == 3

-----------------------------------------------------------------------------
(* Characters and character classes of Python's re module                   *)

LowerSeq == <<"a","b","c","d","e","f","g","h","i","j","k","l","m",
              "n","o","p","q","r","s","t","u","v","w","x","y","z">>
UpperSeq == <<"A","B","C","D","E","F","G","H","I","J","K","L","M",
              "N","O","P","Q","R","S","T","U","V","W","X","Y","Z">>
DigitSet == {"0","1","2","3","4","5","6","7","8","9"}
LowerSet == {LowerSeq[i] : i \in 1..26}
UpperSet == {UpperSeq[i] : i \in 1..26}

\* str.lower() on one character
LowerChar(c) ==
    IF c \in UpperSet THEN LowerSeq[CHOOSE i \in 1..26 : UpperSeq[i] = c] ELSE c

\* str.lower()
Lower(s) == [i \in 1..Len(s) |-> LowerChar(s[i])]

IsDigit(c)  == c \in DigitSet                                 \* \d
IsAlpha(c)  == c \in LowerSet \cup UpperSet                   \* [a-zA-Z]
IsWord(c)   == IsDigit(c) \/ IsAlpha(c) \/ c = "_"            \* \w
IsSpace(c)  == c \in {" ", "\t", "\n"}                        \* \s
IsHex(c)    == IsDigit(c) \/ c \in {"a","b","c","d","e","f"}  \* [a-f0-9]
IsLocal(c)  == IsAlpha(c) \/ IsDigit(c) \/ c \in {".","_","%","+","-"}
IsDomain(c) == IsAlpha(c) \/ IsDigit(c) \/ c \in {".","-"}

\* whether position p of s (1..Len(s)) holds a word character
WordAt(s, p) == p >= 1 /\ p <= Len(s) /\ IsWord(s[p])

\* \b between s[p-1] and s[p]
WordBoundary(s, p) == WordAt(s, p - 1) # WordAt(s, p)

\* the position after the longest run of characters of a class starting at i
RECURSIVE DigitRunEnd(_, _)
DigitRunEnd(s, i) ==
    IF i <= Len(s) /\ IsDigit(s[i]) THEN DigitRunEnd(s, i + 1) ELSE i

RECURSIVE WordRunEnd(_, _)
WordRunEnd(s, i) ==
    IF i <= Len(s) /\ IsWord(s[i]) THEN WordRunEnd(s, i + 1) ELSE i

RECURSIVE AlphaRunEnd(_, _)
AlphaRunEnd(s, i) ==
    IF i <= Len(s) /\ IsAlpha(s[i]) THEN AlphaRunEnd(s, i + 1) ELSE i

RECURSIVE LocalRunEnd(_, _)
LocalRunEnd(s, i) ==
    IF i <= Len(s) /\ IsLocal(s[i]) THEN LocalRunEnd(s, i + 1) ELSE i

RECURSIVE DomainRunEnd(_, _)
DomainRunEnd(s, i) ==
    IF i <= Len(s) /\ IsDomain(s[i]) THEN DomainRunEnd(s, i + 1) ELSE i

RECURSIVE SpaceRunEnd(_, _)
SpaceRunEnd(s, i) ==
    IF i <= Len(s) /\ IsSpace(s[i]) THEN SpaceRunEnd(s, i + 1) ELSE i

\* one element of a fixed-shape pattern against one character:
\* "D" is \d, "S" is [T\s], "H" is [a-f0-9], anything else is a literal
ShapeChar(p, c) ==
    CASE p = "D" -> IsDigit(c)
      [] p = "S" -> c = "T" \/ IsSpace(c)
      [] p = "H" -> IsHex(c)
      [] OTHER   -> c = p

\* s[i..] starts with the fixed-shape pattern
ShapeAt(shape, s, i) ==
    /\ i + Len(shape) - 1 <= Len(s)
    /\ \A k \in 1..Len(shape) : ShapeChar(shape[k], s[i + k - 1])

Rep(p, n) == [k \in 1..n |-> p]

-----------------------------------------------------------------------------
(* The six patterns of clean_log_message.  Each XEnd(s, i) is the position  *)
(* after the match of pattern X that starts at i, or 0 when none does.      *)

TimestampShape ==
    Rep("D", 4) \o <<"-">> \o Rep("D", 2) \o <<"-">> \o Rep("D", 2) \o <<"S">>
      \o Rep("D", 2) \o <<":">> \o Rep("D", 2) \o <<":">> \o Rep("D", 2)

TimestampEnd(s, i) ==
    IF ShapeAt(TimestampShape, s, i) THEN i + Len(TimestampShape) ELSE 0

\* \d+ followed by a literal dot, starting at i: the position after the dot
DigitsDot(s, i) ==
    LET e == DigitRunEnd(s, i)
    IN  IF i > 0 /\ e > i /\ e <= Len(s) /\ s[e] = "." THEN e + 1 ELSE 0

IpEnd(s, i) ==
    LET a == DigitsDot(s, i)
        b == DigitsDot(s, a)
        c == DigitsDot(s, b)
        e == DigitRunEnd(s, c)
    IN  IF /\ WordBoundary(s, i)
           /\ a > 0 /\ b > 0 /\ c > 0
           /\ e > c
           /\ WordBoundary(s, e)
        THEN e ELSE 0

UuidShape ==
    Rep("H", 8) \o <<"-">> \o Rep("H", 4) \o <<"-">> \o Rep("H", 4) \o <<"-">>
      \o Rep("H", 4) \o <<"-">> \o Rep("H", 12)

UuidEnd(s, i) ==
    IF /\ WordBoundary(s, i)
       /\ ShapeAt(UuidShape, s, i)
       /\ WordBoundary(s, i + Len(UuidShape))
    THEN i + Len(UuidShape) ELSE 0

NumEnd(s, i) ==
    LET e == DigitRunEnd(s, i)
    IN  IF WordBoundary(s, i) /\ e > i /\ WordBoundary(s, e) THEN e ELSE 0

\* the positions k of a dot that can end the domain part of an address whose
\* "@" is at position at: a non-empty domain before it, two or more letters and
\* then a word boundary after it
EmailDots(s, at) ==
    LET d == DomainRunEnd(s, at + 1)
    IN  {k \in (at + 2)..(d - 1) :
            /\ s[k] = "."
            /\ AlphaRunEnd(s, k + 1) >= k + 3
            /\ WordBoundary(s, AlphaRunEnd(s, k + 1))}

EmailEnd(s, i) ==
    LET at == LocalRunEnd(s, i)
    IN  IF /\ WordBoundary(s, i)
           /\ at > i
           /\ at <= Len(s) /\ s[at] = "@"
           /\ EmailDots(s, at) # {}
        THEN LET k == CHOOSE x \in EmailDots(s, at) :
                          \A y \in EmailDots(s, at) : y <= x
             IN  AlphaRunEnd(s, k + 1)
        ELSE 0

IdPrefixes ==
    { <<"u","s","e","r","_">>, <<"o","r","d","e","r","_">>, <<"s","e","s","s","_">>,
      <<"r","e","q","_">>, <<"l","o","g","_">>, <<"c","l","i","e","n","t","_">>,
      <<"s","r","v","_">>, <<"v","o","l","_">>, <<"q","_">>,
      <<"c","a","c","h","e","_">> }

PrefixAt(p, s, i) ==
    /\ i + Len(p) - 1 <= Len(s)
    /\ \A k \in 1..Len(p) : s[i + k - 1] = p[k]

IdEnd(s, i) ==
    IF WordBoundary(s, i) /\ \E p \in IdPrefixes :
            PrefixAt(p, s, i) /\ WordRunEnd(s, i + Len(p)) > i + Len(p)
    THEN LET p == CHOOSE q \in IdPrefixes :
                      PrefixAt(q, s, i) /\ WordRunEnd(s, i + Len(q)) > i + Len(q)
         IN  WordRunEnd(s, i + Len(p))
    ELSE 0

SpaceEnd(s, i) ==
    LET e == SpaceRunEnd(s, i) IN IF e > i THEN e ELSE 0

\* re.sub: leftmost non-overlapping matches replaced by repl, scanning from i;
\* ends[i] is the position after the match starting at i (0: no match)
RECURSIVE SubFrom(_, _, _, _)
SubFrom(s, ends, repl, i) ==
    IF i > Len(s) THEN <<>>
    ELSE IF ends[i] > 0 THEN repl \o SubFrom(s, ends, repl, ends[i])
    ELSE <<s[i]>> \o SubFrom(s, ends, repl, i + 1)

SubTimestamp(s) ==
    SubFrom(s, [i \in 1..Len(s) |-> TimestampEnd(s, i)],
            <<"[","T","I","M","E","S","T","A","M","P","]">>, 1)
SubIp(s) ==
    SubFrom(s, [i \in 1..Len(s) |-> IpEnd(s, i)], <<"[","I","P","]">>, 1)
SubUuid(s) ==
    SubFrom(s, [i \in 1..Len(s) |-> UuidEnd(s, i)], <<"[","U","U","I","D","]">>, 1)
SubNum(s) ==
    SubFrom(s, [i \in 1..Len(s) |-> NumEnd(s, i)], <<"[","N","U","M","]">>, 1)
SubEmail(s) ==
    SubFrom(s, [i \in 1..Len(s) |-> EmailEnd(s, i)],
            <<"[","E","M","A","I","L","]">>, 1)
SubId(s) ==
    SubFrom(s, [i \in 1..Len(s) |-> IdEnd(s, i)], <<"[","I","D","]">>, 1)
SubSpace(s) ==
    SubFrom(s, [i \in 1..Len(s) |-> SpaceEnd(s, i)], <<" ">>, 1)

\* str.strip()
RECURSIVE Strip(_)
Strip(s) ==
    IF s = <<>> THEN s
    ELSE IF IsSpace(s[1]) THEN Strip(Tail(s))
    ELSE IF IsSpace(s[Len(s)]) THEN Strip(SubSeq(s, 1, Len(s) - 1))
    ELSE s

\* an argument of clean_log_message: a str, or something that is not one
Str(s) == [isStr |-> TRUE, val |-> s]
NotStr == [isStr |-> FALSE, val |-> <<>>]

clean_log_message(m) ==
    IF ~m.isStr THEN <<>>
    ELSE Strip(SubSpace(SubId(SubEmail(SubNum(SubUuid(SubIp(
                SubTimestamp(Lower(m.val)))))))))

-----------------------------------------------------------------------------
(* The normaliser applied once and then again to its own output             *)

CleanAlphabet == {"q", "_", "1", " ", "A", "."}

RECURSIVE StringsUpTo(_, _)
StringsUpTo(A, n) ==
    IF n = 0 THEN {<<>>}
    ELSE LET shorter == StringsUpTo(A, n - 1)
         IN  shorter \cup {Append(s, c) : s \in shorter, c \in A}

\* longer messages, one or more per volatile class
SampleMessages ==
    { <<"2","0","2","4","-","0","1","-","0","2"," ","1","0",":","3","0",":","0","0"," ","u","p">>,
      <<"2","0","2","4","-","0","1","-","0","2","T","1","0",":","3","0",":","0","0"," ","u","p">>,
      <<"1","0",".","0",".","0",".","7"," ","d","o","w","n">>,
      <<"d","e","a","d","b","e","e","f","-","0","0","0","0","-","1","1","1","1","-",
        "2","2","2","2","-","0","1","2","3","4","5","6","7","8","9","a","b">>,
      <<"b","o","b","@","e","x",".","c","o","m">>,
      <<"b","o","b","@","1","0",".","c","o","m">>,
      <<"u","s","e","r","_","4","2"," ","i","n">>,
      <<"E","r","r"," "," ","4","0","4","\t">> }

CleanInputs ==
    {Str(s) : s \in StringsUpTo(CleanAlphabet, MaxMsgLen) \cup SampleMessages}
        \cup {NotStr}

CleanIdle ==
    /\ message = NotStr /\ once = <<>> /\ twice = <<>> /\ cstage = "idle"

CleanOnce ==
    /\ cstage = "new"
    /\ once' = clean_log_message(message)
    /\ cstage' = "once"
    /\ UNCHANGED <<message, twice, encVars, concVars, preVars, modelVars, otherVars>>

CleanTwice ==
    /\ cstage = "once"
    /\ twice' = clean_log_message(Str(once))
    /\ cstage' = "twice"
    /\ UNCHANGED <<message, once, encVars, concVars, preVars, modelVars, otherVars>>

-----------------------------------------------------------------------------
(* The categorical encoder                                                  *)

CatCols == {"level", "source"}          \* categorical_columns of preprocess_logs

NaN == <<"NaN">>                          \* a missing value of a column

\* Series.astype(str) on one value
AsStr(v) == IF v = NaN THEN <<"n","a","n">> ELSE v

Range(f) == {f[i] : i \in DOMAIN f}

\* lexicographic order of two strings (code point order on the characters used)
CharOrder ==
    <<"0","1","2","3","4","5","6","7","8","9">> \o UpperSeq \o <<"_">> \o LowerSeq
CharRank(c) == CHOOSE i \in 1..Len(CharOrder) : CharOrder[i] = c

RECURSIVE StrLess(_, _)
StrLess(a, b) ==
    IF b = <<>> THEN FALSE
    ELSE IF a = <<>> THEN TRUE
    ELSE IF a[1] = b[1] THEN StrLess(Tail(a), Tail(b))
    ELSE CharRank(a[1]) < CharRank(b[1])

\* np.unique: the distinct values in sorted order
RECURSIVE SortedUnique(_)
SortedUnique(S) ==
    IF S = {} THEN <<>>
    ELSE LET m == CHOOSE x \in S : \A y \in S \ {x} : StrLess(x, y)
         IN  <<m>> \o SortedUnique(S \ {m})

\* the orders in which iterating a Python set can yield its elements
Perms(S) ==
    {f \in [1..Cardinality(S) -> S] : \A i, j \in DOMAIN f : i # j => f[i] # f[j]}

\* a LabelEncoder of self.label_encoders; has = FALSE: the column has none yet
NoEncoder == [has |-> FALSE, classes_ |-> <<>>]

\* LabelEncoder.transform on one value: its position in classes_
IndexOf(classes, v) == (CHOOSE i \in 1..Len(classes) : classes[i] = v) - 1

\* the classes_ an encoder can hold after encoding the column vals
ClassesAfter(enc, vals) ==
    LET strs           == {AsStr(vals[i]) : i \in DOMAIN vals}
        known_values_  == Range(enc.classes_)
        new_values     == strs \ known_values_
    IN  IF ~enc.has THEN {SortedUnique(strs)}
        ELSE IF new_values = {} THEN {enc.classes_}
        ELSE {k \o n : k \in Perms(known_values_), n \in Perms(new_values)}

\* the *_encoded column
Transform(classes, vals) == [i \in DOMAIN vals |-> IndexOf(classes, AsStr(vals[i]))]

NoEncRet == [df |-> [cols |-> {}, level |-> <<>>, source |-> <<>>],
             fitted_now |-> {},
             known_before |-> [c \in CatCols |-> 0],
             encoded |-> [c \in CatCols |-> <<>>]]

EncIdle ==
    /\ label_encoders = [c \in CatCols |-> NoEncoder]
    /\ enc_ret = NoEncRet
    /\ enc_start = [c \in CatCols |-> NoEncoder]

\* the values a row can hold in a column
ColumnValues(col) ==
    IF col = "level" THEN {<<"a">>, <<"b">>, <<"c">>, NaN} ELSE {<<"a">>}

\* the tables handed to encode_categorical_features: the columns present and
\* one value per row of each (<<>> for a column the table does not have)
EncTables ==
    UNION {[cols : {c},
            level : IF "level" \in c
                    THEN UNION {[1..n -> ColumnValues("level")] : n \in 0..MaxEncRows}
                    ELSE {<<>>},
            source : IF "source" \in c
                     THEN UNION {[1..n -> ColumnValues("source")] : n \in 0..MaxEncRows}
                     ELSE {<<>>}] : c \in SUBSET CatCols}

ColOf(df, col) == IF col = "level" THEN df.level ELSE df.source

\* encode_categorical_features(df, ['level', 'source']) with cl and cs the
\* classes_ the two encoders end with
EncodeWith(df, cl, cs) ==
    LET after == [c \in CatCols |->
                    IF c \in df.cols
                    THEN [has |-> TRUE, classes_ |-> IF c = "level" THEN cl ELSE cs]
                    ELSE label_encoders[c]]
    IN  /\ label_encoders' = after
        /\ enc_ret' = [df |-> df,
                       fitted_now |-> {c \in df.cols : ~label_encoders[c].has},
                       known_before |-> [c \in CatCols |-> Len(label_encoders[c].classes_)],
                       encoded |-> [c \in CatCols |->
                           IF c \in df.cols
                           THEN Transform(after[c].classes_, ColOf(df, c))
                           ELSE <<>>]]

encode_categorical_features ==
    \E df \in EncTables :
      \E cl \in ClassesAfter(label_encoders["level"], df.level),
         cs \in ClassesAfter(label_encoders["source"], df.source) :
        /\ EncodeWith(df, cl, cs)
        /\ UNCHANGED <<enc_start, cleanVars, concVars, preVars, modelVars, otherVars>>

-----------------------------------------------------------------------------
(* Two encode_categorical_features calls running concurrently on the        *)
(* already fitted column 'level' (lines 188-199), one step per access to    *)
(* the shared LabelEncoder                                                  *)

Threads == {1, 2}

ConcIdle ==
    /\ pc = [t \in Threads |-> "done"]
    /\ t_df = [t \in Threads |-> <<>>]
    /\ known_values = [t \in Threads |-> {}]
    /\ t_ret = [t \in Threads |-> <<>>]

ThreadStrs(t) == {AsStr(t_df[t][i]) : i \in DOMAIN t_df[t]}

\* line 191: known_values = set(self.label_encoders[col].classes_)
ReadKnown(t) ==
    /\ pc[t] = "known"
    /\ known_values' = [known_values EXCEPT ![t] = Range(label_encoders["level"].classes_)]
    /\ pc' = [pc EXCEPT ![t] = "extend"]
    /\ UNCHANGED <<t_df, t_ret, encVars, cleanVars, preVars, modelVars, otherVars>>

\* lines 192-197: new_values, and classes_ = np.array(all_values) when there are any
ExtendClasses(t) ==
    /\ pc[t] = "extend"
    /\ LET new_values == ThreadStrs(t) \ known_values[t]
       IN  IF new_values = {}
           THEN UNCHANGED label_encoders
           ELSE \E k \in Perms(known_values[t]), n \in Perms(new_values) :
                  label_encoders' =
                      [label_encoders EXCEPT !["level"].classes_ = k \o n]
    /\ pc' = [pc EXCEPT ![t] = "transform"]
    /\ UNCHANGED <<t_df, known_values, t_ret, enc_ret, enc_start,
                   cleanVars, preVars, modelVars, otherVars>>

\* line 199: transform, which raises ValueError on a label classes_ does not hold
TransformColumn(t) ==
    /\ pc[t] = "transform"
    /\ t_ret' = [t_ret EXCEPT ![t] =
          IF ThreadStrs(t) \subseteq Range(label_encoders["level"].classes_)
          THEN [outcome |-> "ok",
                encoded |-> Transform(label_encoders["level"].classes_, t_df[t])]
          ELSE [outcome |-> "ValueError", encoded |-> <<>>]]
    /\ pc' = [pc EXCEPT ![t] = "done"]
    /\ UNCHANGED <<t_df, known_values, encVars, cleanVars, preVars, modelVars, otherVars>>

-----------------------------------------------------------------------------
(* preprocess_logs, save_processed_data and load_processed_data             *)

BertDim == 768          \* hidden size of 'distilbert-base-uncased'
MaxTfidfCalls == 2      \* get_tfidf_features calls made on one preprocessor
MaxFeatures == 1000     \* max_features of get_tfidf_features
MinDf == 2              \* min_df of the TfidfVectorizer
MaxDfPct == 95          \* max_df = 0.95 of the TfidfVectorizer
TestSizeNum == 1        \* test_size = 0.2 = TestSizeNum / TestSizeDen
TestSizeDen == 5

temporal_cols == <<"hour", "day_of_week", "is_weekend", "is_business_hours", "is_night">>

NoVectorizer == [state |-> "none", n |-> 0]
NewScaler == [fitted |-> FALSE, n_features_in_ |-> 0, n_samples_seen_ |-> 0]
NoFile == [exists |-> FALSE]

\* what a call returned or raised, and what it assembled on the way:
\* width = -1 when the call ended before X_combined was assembled
NoRet == [op |-> "none", outcome |-> "none", layout |-> <<>>, backend |-> "none",
          width |-> -1, n_rows |-> 0, test_rows |-> {}, bert_failed |-> FALSE,
          scaler_before |-> NewScaler, saved |-> FALSE]

PreIdle ==
    /\ tfidf_vectorizer = NoVectorizer
    /\ scaler = NewScaler
    /\ use_bert = FALSE
    /\ pkl = NoFile
    /\ ret = NoRet
    /\ calls = 0
    /\ tfidf_fits = 0

OptionalCols == {"timestamp", "level", "source"}

\* the tables read_csv can return to preprocess_logs: the columns present, the
\* number of rows, one value per row of the categorical columns present, whether
\* every timestamp parses and the number of terms a TF-IDF fit keeps of the
\* messages.  What a call never reads is put to one value.
Table(c, n, lv, t, v) ==
    [cols |-> c, n |-> n, level |-> lv,
     source |-> IF "source" \in c THEN [i \in 1..n |-> <<"a">>] ELSE <<>>,
     ts_ok |-> t, vocab |-> v]

ColSets == {c \cup {"message"} : c \in SUBSET OptionalCols}

LevelColumns(c, n) ==
    IF "level" \in c THEN [1..n -> {<<"a">>, <<"b">>}] ELSE {<<>>}

PreTables ==
    {Table({}, 0, <<>>, TRUE, 0)}
      \cup {Table(c, 1, CHOOSE lv \in LevelColumns(c, 1) : TRUE, FALSE, 0) :
                c \in {x \in ColSets : "timestamp" \in x}}
      \cup UNION {{Table(cn[1], cn[2], lv, TRUE, v) :
                      lv \in LevelColumns(cn[1], cn[2]), v \in 0..MaxVocab} :
                   cn \in ColSets \X (0..MaxPreRows)}

\* lines 283-295: feature_columns
FeatureColumns(df) ==
    (IF "timestamp" \in df.cols THEN temporal_cols ELSE <<>>)
      \o (IF "level" \in df.cols THEN <<"level_encoded">> ELSE <<>>)
      \o (IF "source" \in df.cols THEN <<"source_encoded">> ELSE <<>>)
      \o (IF "timestamp" \in df.cols THEN <<"unusual_timing">> ELSE <<>>)
      \o (IF "timestamp" \in df.cols /\ "level" \in df.cols
          THEN <<"high_error_period">> ELSE <<>>)

\* 1 when a call that found the vectorizer before left the fitted vectorizer
\* after through fit_transform (line 164), 0 when it did not fit
Fitted(before, after) ==
    IF before.state = "none" /\ after.state = "fitted" THEN 1 ELSE 0

\* get_tfidf_features on n messages of which a fit keeps vocab terms
get_tfidf_features(tv, n, vocab) ==
    IF tv.state = "none"
    THEN IF n = 0 \/ n * MaxDfPct < MinDf * 100 \/ vocab = 0
         THEN [raised |-> "ValueError", width |-> 0,
               tv |-> [state |-> "unfitted", n |-> 0]]
         ELSE LET w == IF vocab < MaxFeatures THEN vocab ELSE MaxFeatures
              IN  [raised |-> "", width |-> w, tv |-> [state |-> "fitted", n |-> w]]
    ELSE IF tv.state = "unfitted"
    THEN [raised |-> "NotFittedError", width |-> 0, tv |-> tv]
    ELSE [raised |-> "", width |-> tv.n, tv |-> tv]

\* lines 300-313: the text features of n messages
TextFeatures(tv, self_use_bert, p_use_bert, n, vocab, bert_fails) ==
    IF p_use_bert /\ self_use_bert
    THEN IF n > 0 /\ bert_fails
         THEN [raised |-> "RuntimeError", backend |-> "bert", width |-> 0, tv |-> tv,
               bert_failed |-> TRUE]
         ELSE IF n > 0
         THEN [raised |-> "", backend |-> "bert", width |-> BertDim, tv |-> tv,
               bert_failed |-> FALSE]
         ELSE get_tfidf_features(tv, n, vocab) @@
                 [backend |-> "tfidf", bert_failed |-> FALSE]
    ELSE get_tfidf_features(tv, n, vocab) @@
            [backend |-> "tfidf", bert_failed |-> FALSE]

\* train_test_split(test_size = 0.2, stratify = y) on the rows y
NTest(n) == (n * TestSizeNum + TestSizeDen - 1) \div TestSizeDen
SplitOK(y) ==
    LET n       == Len(y)
        classes == Range(y)
    IN  /\ n - NTest(n) >= 1
        /\ \A c \in classes : Cardinality({i \in DOMAIN y : y[i] = c}) >= 2
        /\ n - NTest(n) >= Cardinality(classes)
        /\ NTest(n) >= Cardinality(classes)

\* StandardScaler.fit_transform on an n x width matrix: fit resets the scaler
\* and then rejects a matrix without rows
FitScaler(n, width) ==
    IF n = 0 THEN NewScaler
    ELSE [fitted |-> TRUE, n_features_in_ |-> width, n_samples_seen_ |-> n]

\* the state preprocess_logs leaves and what it returns, for the table df, the
\* arguments use_bert and save_processed, a dense backend that fails or not,
\* the classes_ cl and cs the two encoders end with, and the rows of the test split
PreResult(df, p_use_bert, save_processed, bert_fails, cl, cs, test_rows) ==
    LET n    == df.n
        enc  == [c \in CatCols |->
                    IF c \in df.cols
                    THEN [has |-> TRUE, classes_ |-> IF c = "level" THEN cl ELSE cs]
                    ELSE label_encoders[c]]
        text == TextFeatures(tfidf_vectorizer, use_bert, p_use_bert, n, df.vocab,
                             bert_fails)
        cols == FeatureColumns(df)
        w    == Len(cols) + text.width
        y    == Transform(enc["level"].classes_, df.level)
        base == [NoRet EXCEPT !.op = "preprocess_logs", !.n_rows = n,
                              !.scaler_before = scaler]
        same == [label_encoders |-> label_encoders, tfidf_vectorizer |-> tfidf_vectorizer,
                 scaler |-> scaler, save |-> FALSE]
    IN  IF "message" \notin df.cols
        THEN same @@ [ret |-> [base EXCEPT !.outcome = "ValueError"]]
        ELSE IF ~df.ts_ok
        THEN same @@ [ret |-> [base EXCEPT !.outcome = "ParserError"]]
        ELSE IF text.raised # ""
        THEN [label_encoders |-> enc, tfidf_vectorizer |-> text.tv, scaler |-> scaler,
              save |-> FALSE,
              ret |-> [base EXCEPT !.outcome = text.raised, !.layout = cols,
                                   !.backend = text.backend,
                                   !.bert_failed = text.bert_failed]]
        ELSE IF "level" \notin df.cols
        THEN [label_encoders |-> enc, tfidf_vectorizer |-> text.tv, scaler |-> scaler,
              save |-> FALSE,
              ret |-> [base EXCEPT !.outcome = "ValueError", !.layout = cols,
                                   !.backend = text.backend, !.width = w]]
        ELSE IF n = 0 \/ ~SplitOK(y)
        THEN [label_encoders |-> enc, tfidf_vectorizer |-> text.tv,
              scaler |-> FitScaler(n, w), save |-> FALSE,
              ret |-> [base EXCEPT !.outcome = "ValueError", !.layout = cols,
                                   !.backend = text.backend, !.width = w]]
        ELSE [label_encoders |-> enc, tfidf_vectorizer |-> text.tv,
              scaler |-> FitScaler(n, w), save |-> save_processed,
              ret |-> [base EXCEPT !.outcome = "ok", !.layout = cols,
                                   !.backend = text.backend, !.width = w,
                                   !.test_rows = test_rows,
                                   !.saved = save_processed]]

\* save_processed_data: the arrays and the pickled preprocessing objects
SavedFiles(r) ==
    [exists |-> TRUE,
     label_encoders |-> r.label_encoders,
     tfidf_vectorizer |-> r.tfidf_vectorizer,
     scaler |-> r.scaler,
     use_bert |-> use_bert,
     X_backend |-> r.ret.backend,
     X_width |-> r.ret.width]

\* the ways train_test_split can pick the test rows of a call that gets there
TestSplits(df, r) ==
    IF r.ret.outcome = "ok"
    THEN {t \in SUBSET (1..df.n) : Cardinality(t) = NTest(df.n)}
    ELSE {{}}

preprocess_logs ==
    /\ calls < MaxCalls
    /\ calls' = calls + 1
    /\ \/ \* line 259: no file at file_path
          /\ ret' = [NoRet EXCEPT !.op = "preprocess_logs",
                                  !.outcome = "FileNotFoundError",
                                  !.scaler_before = scaler]
          /\ UNCHANGED <<label_encoders, tfidf_vectorizer, scaler, pkl, tfidf_fits>>
       \/ \E df \in PreTables, p_use_bert \in BOOLEAN :
          \E bert_fails \in IF p_use_bert /\ use_bert /\ df.n > 0
                            THEN BOOLEAN ELSE {FALSE} :
          \E cl \in ClassesAfter(label_encoders["level"], df.level),
             cs \in ClassesAfter(label_encoders["source"], df.source) :
          \E save_processed \in
                IF PreResult(df, p_use_bert, TRUE, bert_fails, cl, cs, {}).save
                THEN BOOLEAN ELSE {FALSE} :
          \E test_rows \in TestSplits(df, PreResult(df, p_use_bert, save_processed,
                                                    bert_fails, cl, cs, {})) :
            LET r == PreResult(df, p_use_bert, save_processed, bert_fails,
                               cl, cs, test_rows)
            IN  /\ label_encoders' = r.label_encoders
                /\ tfidf_vectorizer' = r.tfidf_vectorizer
                /\ scaler' = r.scaler
                /\ ret' = r.ret
                /\ pkl' = IF r.save THEN SavedFiles(r) ELSE pkl
                /\ tfidf_fits' = tfidf_fits + Fitted(tfidf_vectorizer, r.tfidf_vectorizer)
    /\ UNCHANGED <<use_bert, enc_ret, enc_start, cleanVars, concVars, modelVars, otherVars>>

load_processed_data ==
    /\ IF pkl.exists
       THEN /\ label_encoders' = pkl.label_encoders
            /\ tfidf_vectorizer' = pkl.tfidf_vectorizer
            /\ scaler' = pkl.scaler
            /\ ret' = [NoRet EXCEPT !.op = "load_processed_data", !.outcome = "ok",
                                    !.scaler_before = scaler]
       ELSE /\ ret' = [NoRet EXCEPT !.op = "load_processed_data",
                                    !.outcome = "FileNotFoundError",
                                    !.scaler_before = scaler]
            /\ UNCHANGED <<label_encoders, tfidf_vectorizer, scaler>>
    /\ UNCHANGED <<use_bert, pkl, calls, tfidf_fits, enc_ret, enc_start,
                   cleanVars, concVars, modelVars, otherVars>>

\* get_tfidf_features called on n messages of which a fit keeps vocab terms
GetTfidfFeatures ==
    /\ calls < MaxTfidfCalls
    /\ calls' = calls + 1
    /\ \E n \in 0..MaxPreRows, vocab \in 0..MaxVocab :
         LET r == get_tfidf_features(tfidf_vectorizer, n, vocab)
         IN  /\ tfidf_vectorizer' = r.tv
             /\ tfidf_fits' = tfidf_fits + Fitted(tfidf_vectorizer, r.tv)
             /\ ret' = [NoRet EXCEPT !.op = "get_tfidf_features",
                                     !.outcome = IF r.raised = "" THEN "ok" ELSE r.raised,
                                     !.backend = "tfidf",
                                     !.width = r.width, !.n_rows = n,
                                     !.scaler_before = scaler]
    /\ UNCHANGED <<scaler, use_bert, pkl, encVars, cleanVars, concVars, modelVars,
                   otherVars>>

\* save_processed_data called with arrays of the caller's: the preprocessing
\* objects are pickled as they are
save_processed_data ==
    /\ pkl' = SavedFiles([label_encoders |-> label_encoders,
                          tfidf_vectorizer |-> tfidf_vectorizer,
                          scaler |-> scaler, ret |-> NoRet])
    /\ ret' = [NoRet EXCEPT !.op = "save_processed_data", !.outcome = "ok",
                            !.scaler_before = scaler, !.saved = TRUE]
    /\ UNCHANGED <<tfidf_vectorizer, scaler, use_bert, calls, tfidf_fits, encVars,
                   cleanVars, concVars, modelVars, otherVars>>

-----------------------------------------------------------------------------
(* The model bank: EnhancedLogAnalysisModel                                 *)

\* the models dict of train_classification_models, in its insertion order
ClassifierNames == <<"random_forest", "logistic_regression", "mlp_classifier">>
\* the anomaly_models dict of train_anomaly_detection_models
AnomalyNames == <<"isolation_forest", "one_class_svm">>

\* the names hyperparameter_tuning has a parameter grid for (lines 266-281)
TunableNames == {"random_forest", "logistic_regression"}
\* line 300: f'{model_name}_tuned'
Tuned(model_name) == model_name \o "_tuned"

\* every key the classifier registry and the anomaly registry can come to hold
ClsNames == Range(ClassifierNames) \cup {Tuned(n) : n \in TunableNames}
AnoNames == Range(AnomalyNames)

\* a registry maps each name to the call that made its artifact (the number of
\* the training call, or of the tuning call for a tuned model);
\* NotRegistered: the dict has no such key
NotRegistered == 0
Keys(reg) == {n \in DOMAIN reg : reg[n] # NotRegistered}

\* how training one model goes: "ok", "fit" (model.fit raises) or "after"
\* (fit returns, and the scoring that follows the registration raises)
TrainHow == {"ok", "fit", "after"}

\* an entry of model_performance: the metrics of an artifact (auc: the entry's
\* 'auc' is a number, not None), or {'error': ..};
\* NoEntry: the dict has no such key
NoEntry == [of |-> NotRegistered, error |-> FALSE, auc |-> FALSE]
NoPerformance == [n \in ClsNames |-> NoEntry]

NoCall == [op |-> "none", model_name |-> "", outcome |-> "",
           available |-> <<>>, how |-> <<>>, result |-> NotRegistered]

\* lines 31-37: the fields of a new model bank
NewBank ==
    /\ classification_models = [n \in ClsNames |-> NotRegistered]
    /\ anomaly_models = [n \in AnoNames |-> NotRegistered]
    /\ cls_order = <<>>
    /\ ano_order = <<>>
    /\ model_performance = NoPerformance
    /\ is_trained = FALSE

ModelIdle ==
    /\ NewBank
    /\ trainings = 0
    /\ tunings = 0
    /\ saves = 0
    /\ train_ret = [op |-> "none", raised |-> FALSE, how |-> <<>>, returned |-> <<>>]
    /\ call_ret = NoCall
    /\ cls_files = [n \in ClsNames |-> NotRegistered]
    /\ ano_files = [n \in AnoNames |-> NotRegistered]
    /\ perf_file = <<>>

\* the loop body as it would be without its try/except: an exception of fit or
\* of the scoring leaves the loop
TrainOneFailsLoop(st, name, how, gen) ==
    IF st.raised THEN st
    ELSE IF how = "fit" THEN [st EXCEPT !.raised = TRUE]
    ELSE [models |-> [st.models EXCEPT ![name] = gen], raised |-> how = "after"]

\* lines 98-108 and 140-152: one pass of the training loop, for the model name
\* trained as the call numbered gen; st is the registry and whether an
\* exception has left the loop
TrainOne(st, name, how, gen) ==
    IF st.raised THEN st
    ELSE IF how = "fit" THEN st
    ELSE [st EXCEPT !.models[name] = gen]

RECURSIVE TrainLoop(_, _, _, _, _)
TrainLoop(st, names, i, how, gen) ==
    IF i > Len(names) THEN st
    ELSE TrainLoop(TrainOne(st, names[i], how[i], gen), names, i + 1, how, gen)

\* a dict keeps the position of a key it holds; new keys go to the end, in the
\* order names gives them
KeyOrder(order, names, reg) ==
    order \o SelectSeq(names, LAMBDA n : reg[n] # NotRegistered /\ n \notin Range(order))

train_classification_models ==
    /\ trainings < MaxTrainings
    /\ trainings' = trainings + 1
    /\ \E how \in [1..Len(ClassifierNames) -> TrainHow] :
         LET st == TrainLoop([models |-> classification_models, raised |-> FALSE],
                             ClassifierNames, 1, how, trainings + 1)
         IN  /\ classification_models' = st.models
             /\ cls_order' = KeyOrder(cls_order, ClassifierNames, st.models)
             /\ train_ret' = [op |-> "train_classification_models",
                              raised |-> st.raised, how |-> how,
                              returned |-> IF st.raised THEN <<>> ELSE st.models]
    /\ UNCHANGED <<anomaly_models, ano_order, model_performance, is_trained,
                   tunings, call_ret, diskVars,
                   cleanVars, encVars, concVars, preVars, otherVars>>

train_anomaly_detection_models ==
    /\ trainings < MaxTrainings
    /\ trainings' = trainings + 1
    /\ \E how \in [1..Len(AnomalyNames) -> TrainHow] :
         LET st == TrainLoop([models |-> anomaly_models, raised |-> FALSE],
                             AnomalyNames, 1, how, trainings + 1)
         IN  /\ anomaly_models' = st.models
             /\ ano_order' = KeyOrder(ano_order, AnomalyNames, st.models)
             /\ train_ret' = [op |-> "train_anomaly_detection_models",
                              raised |-> st.raised, how |-> how,
                              returned |-> IF st.raised THEN <<>> ELSE st.models]
    /\ UNCHANGED <<classification_models, cls_order, model_performance, is_trained,
                   tunings, call_ret, diskVars,
                   cleanVars, encVars, concVars, preVars, otherVars>>

\* how evaluating one model goes: "ok"; "auc" (no predict_proba, or
\* roc_auc_score raises); "fail" (predict or another metric raises)
EvalHow == {"ok", "auc", "fail"}

\* the evaluation as it would be without the inner try around roc_auc_score
EvaluateOneAucFatal(gen, how) ==
    IF how = "ok" THEN [of |-> gen, error |-> FALSE, auc |-> TRUE]
    ELSE [of |-> gen, error |-> TRUE, auc |-> FALSE]

\* lines 173-205: the entry of one classifier, the artifact gen
EvaluateOne(gen, how) ==
    IF how = "fail" THEN [of |-> gen, error |-> TRUE, auc |-> FALSE]     \* 203-205
    ELSE [of |-> gen, error |-> FALSE, auc |-> how = "ok"]               \* 183-199

\* lines 170-208: every registered classifier is evaluated; the report
\* replaces the old one
Evaluate(reg, how) ==
    [n \in DOMAIN reg |->
        IF reg[n] = NotRegistered THEN NoEntry
        ELSE EvaluateOne(reg[n], how[n])]

evaluate_classification_models ==
    /\ \E how \in [Keys(classification_models) -> EvalHow] :
         /\ model_performance' = Evaluate(classification_models, how)
         /\ call_ret' = [NoCall EXCEPT !.op = "evaluate_classification_models",
                                       !.outcome = "ok",
                                       !.how = how,
                                       !.result = model_performance']
    /\ UNCHANGED <<classification_models, anomaly_models, trainings, train_ret,
                   cls_order, ano_order, is_trained, tunings, diskVars,
                   cleanVars, encVars, concVars, preVars, otherVars>>

\* how evaluating one anomaly model goes: "ok", or "fail" (predict or
\* decision_function raises)
AnomalyEvalHow == {"ok", "fail"}

\* lines 226-243: the entry of one anomaly model in the returned map
EvaluateAnomalyOne(gen, how) == [of |-> gen, error |-> how = "fail"]

\* lines 211-249: the results are returned; the bank keeps nothing of them
evaluate_anomaly_models ==
    /\ \E how \in [Keys(anomaly_models) -> AnomalyEvalHow] :
         call_ret' = [NoCall EXCEPT !.op = "evaluate_anomaly_models",
                                    !.outcome = "ok",
                                    !.how = how,
                                    !.result = [n \in Keys(anomaly_models) |->
                                        EvaluateAnomalyOne(anomaly_models[n], how[n])]]
    /\ UNCHANGED <<classification_models, anomaly_models, trainings, train_ret,
                   cls_order, ano_order, model_performance, is_trained, tunings,
                   diskVars, cleanVars, encVars, concVars, preVars, otherVars>>

\* how a grid search goes: "ok", or "fit" (GridSearchCV.fit raises)
TuneHow == {"ok", "fit"}

\* the tuning as it would be if line 300 assigned to the key model_name
TuneOneReplacesOriginal(reg, model_name, how, gen) ==
    IF model_name \notin TunableNames \/ how = "fit" THEN reg
    ELSE [reg EXCEPT ![model_name] = gen]

\* the tuning as it would be if the estimator were registered before the fit
TuneOneRegistersFirst(reg, model_name, how, gen) ==
    IF model_name \notin TunableNames THEN reg
    ELSE [reg EXCEPT ![Tuned(model_name)] = gen]

\* lines 266-316: the registry after hyperparameter_tuning(model_name), the
\* call numbered gen
TuneOne(reg, model_name, how, gen) ==
    IF model_name \notin TunableNames THEN reg       \* lines 283-285: return {}
    ELSE IF how = "fit" THEN reg                     \* lines 314-316: return {}
    ELSE [reg EXCEPT ![Tuned(model_name)] = gen]     \* line 300

hyperparameter_tuning ==
    /\ tunings < MaxTunings
    /\ tunings' = tunings + 1
    /\ \E model_name \in Range(ClassifierNames), how \in TuneHow :
         LET reg == TuneOne(classification_models, model_name, how, tunings + 1)
             ok  == model_name \in TunableNames /\ how = "ok"
         IN  /\ classification_models' = reg
             /\ cls_order' = KeyOrder(cls_order,
                                      SelectSeq(<<Tuned(model_name)>>,
                                                LAMBDA n : n \in ClsNames),
                                      reg)
             /\ call_ret' = [NoCall EXCEPT !.op = "hyperparameter_tuning",
                                           !.model_name = model_name,
                                           !.outcome = IF ok THEN "results" ELSE "empty",
                                           !.result = IF ok THEN tunings + 1
                                                      ELSE NotRegistered]
    /\ UNCHANGED <<anomaly_models, ano_order, trainings, train_ret,
                   model_performance, is_trained, diskVars,
                   cleanVars, encVars, concVars, preVars, otherVars>>

\* the names a caller may ask for
Requests(names) == names \cup {"nonexistent"}

\* the lookup as it would be if the message listed the configured names
LookupConfiguredNames(op, reg, order, model_name) ==
    IF model_name \notin Keys(reg)
    THEN [NoCall EXCEPT !.op = op, !.model_name = model_name,
                        !.outcome = "ValueError",
                        !.available = IF op = "predict_log_level"
                                      THEN ClassifierNames ELSE AnomalyNames]
    ELSE [NoCall EXCEPT !.op = op, !.model_name = model_name,
                        !.outcome = "ok", !.result = reg[model_name]]

\* lines 329-336 and 349-356: the ValueError names model_name and
\* list(registry.keys()); otherwise the artifact under model_name predicts
Lookup(op, reg, order, model_name) ==
    IF model_name \notin Keys(reg)
    THEN [NoCall EXCEPT !.op = op, !.model_name = model_name,
                        !.outcome = "ValueError", !.available = order]
    ELSE [NoCall EXCEPT !.op = op, !.model_name = model_name,
                        !.outcome = "ok", !.result = reg[model_name]]

predict_log_level ==
    /\ \E model_name \in Requests(ClsNames) :
         call_ret' = Lookup("predict_log_level", classification_models,
                            cls_order, model_name)
    /\ UNCHANGED <<classification_models, anomaly_models, trainings, train_ret,
                   cls_order, ano_order, model_performance, is_trained, tunings,
                   diskVars, cleanVars, encVars, concVars, preVars, otherVars>>

detect_anomalies ==
    /\ \E model_name \in Requests(AnoNames) :
         call_ret' = Lookup("detect_anomalies", anomaly_models,
                            ano_order, model_name)
    /\ UNCHANGED <<classification_models, anomaly_models, trainings, train_ret,
                   cls_order, ano_order, model_performance, is_trained, tunings,
                   diskVars, cleanVars, encVars, concVars, preVars, otherVars>>

\* lines 31-37: a new model bank is constructed; the files on disk stay, and
\* the constructor returns nothing
EnhancedLogAnalysisModel ==
    /\ classification_models' = [n \in ClsNames |-> NotRegistered]
    /\ anomaly_models' = [n \in AnoNames |-> NotRegistered]
    /\ cls_order' = <<>>
    /\ ano_order' = <<>>
    /\ model_performance' = NoPerformance
    /\ is_trained' = FALSE
    /\ UNCHANGED <<trainings, train_ret, tunings, call_ret, diskVars,
                   cleanVars, encVars, concVars, preVars, otherVars>>

\* the first k keys of a dict in its iteration order
FirstKeys(order, k) == {order[i] : i \in 1..(IF k < Len(order) THEN k ELSE Len(order))}

\* lines 362-367: the model files after the dump of the keys in written
Dumped(files, reg, written) ==
    [n \in DOMAIN files |-> IF n \in written THEN reg[n] ELSE files[n]]

\* what a save_models call was given: the registries it was to save and the
\* model files that were on disk when it began
SaveRecord ==
    [cls |-> classification_models, ano |-> anomaly_models,
     old_cls |-> cls_files, old_ano |-> ano_files]

\* lines 358-376: the classifiers, then the anomaly models, then the report
\* are written one file at a time; written is the number of files dumped before
\* a dump raises (all of them when none does); the except clause logs
save_models ==
    /\ saves < MaxSaves
    /\ saves' = saves + 1
    /\ LET nc  == Len(cls_order)
           na  == Len(ano_order)
       IN  \E written \in 0..(nc + na + 1) :
             /\ cls_files' = Dumped(cls_files, classification_models,
                                    FirstKeys(cls_order, written))
             /\ ano_files' = Dumped(ano_files, anomaly_models,
                                    IF written > nc
                                    THEN FirstKeys(ano_order, written - nc) ELSE {})
             /\ perf_file' = IF written = nc + na + 1
                             THEN <<model_performance>> ELSE perf_file
             /\ call_ret' = [NoCall EXCEPT !.op = "save_models",
                                           !.outcome = IF written = nc + na + 1
                                                       THEN "ok" ELSE "logged",
                                           !.result = SaveRecord]
    /\ UNCHANGED <<classification_models, anomaly_models, trainings, train_ret,
                   cls_order, ano_order, model_performance, is_trained, tunings,
                   cleanVars, encVars, concVars, preVars, otherVars>>

\* lines 384-393: every file the glob finds is loaded under the name in its
\* file name, over whatever the registry holds
Loaded(reg, files) ==
    [n \in DOMAIN reg |-> IF files[n] # NotRegistered THEN files[n] ELSE reg[n]]

\* lines 378-406: glob yields the files in an arbitrary order; a missing
\* report file is only warned about; is_trained is set
load_models ==
    /\ classification_models' = Loaded(classification_models, cls_files)
    /\ anomaly_models' = Loaded(anomaly_models, ano_files)
    /\ \E found \in Perms(Keys(cls_files) \ Range(cls_order)) :
         cls_order' = cls_order \o found
    /\ \E found \in Perms(Keys(ano_files) \ Range(ano_order)) :
         ano_order' = ano_order \o found
    /\ model_performance' = IF perf_file # <<>> THEN perf_file[1]
                            ELSE model_performance
    /\ is_trained' = TRUE
    /\ call_ret' = [NoCall EXCEPT !.op = "load_models", !.outcome = "ok"]
    /\ UNCHANGED <<trainings, train_ret, tunings, diskVars,
                   cleanVars, encVars, concVars, preVars, otherVars>>

-----------------------------------------------------------------------------
(* extract_temporal_features                                                *)

\* a value of the timestamp column: a string pd.to_datetime parses (kind "ts",
\* with its hour, minute and day of the week, Monday = 0), a string it cannot
\* parse (kind "bad"), or a null (kind "null")
Timestamp(h, m, d) == [kind |-> "ts", hour |-> h, minute |-> m, dow |-> d]
Unparseable == [kind |-> "bad", hour |-> 0, minute |-> 0, dow |-> 0]
NullTimestamp == [kind |-> "null", hour |-> 0, minute |-> 0, dow |-> 0]

\* dt.hour and dt.dayofweek of NaT
NaNField == -1

\* the comparison as it would be with > 22 for >= 22
TemporalRowStrictNight(t) ==
    IF t.kind = "null"
    THEN [hour |-> NaNField, day_of_week |-> NaNField, is_weekend |-> 0,
          is_business_hours |-> 0, is_night |-> 0]
    ELSE [hour |-> t.hour,
          day_of_week |-> t.dow,
          is_weekend |-> IF t.dow >= 5 THEN 1 ELSE 0,
          is_business_hours |-> IF t.hour >= 9 /\ t.hour <= 17 THEN 1 ELSE 0,
          is_night |-> IF t.hour > 22 \/ t.hour <= 6 THEN 1 ELSE 0]

\* lines 96-100: the five columns of one row; every comparison with the NaN of
\* a NaT row is False
TemporalRow(t) ==
    IF t.kind = "null"
    THEN [hour |-> NaNField, day_of_week |-> NaNField, is_weekend |-> 0,
          is_business_hours |-> 0, is_night |-> 0]
    ELSE [hour |-> t.hour,
          day_of_week |-> t.dow,
          is_weekend |-> IF t.dow >= 5 THEN 1 ELSE 0,
          is_business_hours |-> IF t.hour >= 9 /\ t.hour <= 17 THEN 1 ELSE 0,
          is_night |-> IF t.hour >= 22 \/ t.hour <= 6 THEN 1 ELSE 0]

\* lines 91-102: pd.to_datetime raises for the whole series when one value
\* does not parse; otherwise one row of features per timestamp
extract_temporal_features(ts) ==
    IF \E i \in DOMAIN ts : ts[i].kind = "bad"
    THEN [raised |-> "ValueError", rows |-> <<>>]
    ELSE [raised |-> "", rows |-> [i \in DOMAIN ts |-> TemporalRow(ts[i])]]

NotExtracted == [raised |-> "none", rows |-> <<>>]

TemporalIdle ==
    /\ timestamps = <<>>
    /\ temporal_ret = NotExtracted
    /\ temporal_again = NotExtracted

-----------------------------------------------------------------------------
(* predict_log_level and detect_anomalies called from several threads       *)

Scorers == 1..MaxScorers

ScoreOps == {"predict_log_level", "detect_anomalies"}

\* the default model_name of each method, and a name no bank registers
ScoreRequests(op) ==
    {IF op = "predict_log_level" THEN "random_forest" ELSE "isolation_forest",
     "nonexistent"}

NoRequest == [op |-> "none", model_name |-> ""]

ScoreIdle ==
    /\ s_pc = [t \in Scorers |-> "idle"]
    /\ s_req = [t \in Scorers |-> NoRequest]
    /\ s_model = [t \in Scorers |-> NotRegistered]
    /\ s_ret = [t \in Scorers |-> NoCall]

RegistryFor(op) ==
    IF op = "predict_log_level" THEN classification_models ELSE anomaly_models

OrderFor(op) == IF op = "predict_log_level" THEN cls_order ELSE ano_order

\* the subscript as it would be if it took the artifact out of the registry
FetchPops(reg, model_name) ==
    [model |-> reg[model_name], reg |-> [reg EXCEPT ![model_name] = NotRegistered]]

\* lines 333 and 353: model = registry[model_name] reads the registry and
\* leaves it as it is
Fetch(reg, model_name) == [model |-> reg[model_name], reg |-> reg]

\* a thread enters one of the two methods
ScoreBegin(t) ==
    /\ s_pc[t] = "idle"
    /\ \E op \in ScoreOps : \E model_name \in ScoreRequests(op) :
         s_req' = [s_req EXCEPT ![t] = [op |-> op, model_name |-> model_name]]
    /\ s_pc' = [s_pc EXCEPT ![t] = "check"]
    /\ UNCHANGED <<s_model, s_ret, temporalVars, alertVars,
                   cleanVars, encVars, concVars, preVars, modelVars>>

\* lines 329-330 and 349-350: the membership test and the ValueError
ScoreCheck(t) ==
    /\ s_pc[t] = "check"
    /\ IF s_req[t].model_name \notin Keys(RegistryFor(s_req[t].op))
       THEN /\ s_ret' = [s_ret EXCEPT ![t] =
                           Lookup(s_req[t].op, RegistryFor(s_req[t].op),
                                  OrderFor(s_req[t].op), s_req[t].model_name)]
            /\ s_pc' = [s_pc EXCEPT ![t] = "done"]
       ELSE /\ s_pc' = [s_pc EXCEPT ![t] = "fetch"]
            /\ UNCHANGED s_ret
    /\ UNCHANGED <<s_req, s_model, temporalVars, alertVars,
                   cleanVars, encVars, concVars, preVars, modelVars>>

\* lines 333 and 353: the thread takes the artifact under model_name
ScoreFetch(t) ==
    /\ s_pc[t] = "fetch"
    /\ LET f == Fetch(RegistryFor(s_req[t].op), s_req[t].model_name)
       IN  /\ s_model' = [s_model EXCEPT ![t] = f.model]
           /\ classification_models' =
                  IF s_req[t].op = "predict_log_level" THEN f.reg
                  ELSE classification_models
           /\ anomaly_models' =
                  IF s_req[t].op = "predict_log_level" THEN anomaly_models
                  ELSE f.reg
    /\ s_pc' = [s_pc EXCEPT ![t] = "predict"]
    /\ UNCHANGED <<s_req, s_ret, trainings, train_ret, cls_order, ano_order,
                   model_performance, is_trained, tunings, call_ret, diskVars,
                   temporalVars, alertVars, cleanVars, encVars, concVars, preVars>>

\* lines 334-336 and 354-356: the thread's artifact predicts; the call returns
ScorePredict(t) ==
    /\ s_pc[t] = "predict"
    /\ s_ret' = [s_ret EXCEPT ![t] =
                    [NoCall EXCEPT !.op = s_req[t].op,
                                   !.model_name = s_req[t].model_name,
                                   !.outcome = "ok", !.result = s_model[t]]]
    /\ s_pc' = [s_pc EXCEPT ![t] = "done"]
    /\ UNCHANGED <<s_req, s_model, temporalVars, alertVars,
                   cleanVars, encVars, concVars, preVars, modelVars>>

-----------------------------------------------------------------------------
(* src/alerts.py: create_alert, get_alert and delete_alert                  *)

\* lines 20-57: the three alerts the module starts with
InitialAlerts ==
    <<[id |-> 1, name |-> "Critical Error Threshold"],
      [id |-> 2, name |-> "Anomaly Detection Alert"],
      [id |-> 3, name |-> "System Health Warning"]>>

NoResponse == [op |-> "none", status |-> 0, alert |-> <<>>]

AlertIdle ==
    /\ MOCK_ALERTS = InitialAlerts
    /\ alert_ret = NoResponse
    /\ alert_requests = 0

\* the bodies POST /alerts can carry: every required field, a field missing,
\* or no JSON object at all
AlertData ==
    {[kind |-> "full", name |-> "a"], [kind |-> "full", name |-> "b"],
     [kind |-> "partial", name |-> ""], [kind |-> "none", name |-> ""]}

\* the ids a request path can carry
AlertIds == 1..(Len(InitialAlerts) + MaxAlertRequests)

\* lines 147 and 188: the first index whose alert has the id, 0 for None
FirstWithId(alerts, alert_id) ==
    IF \E i \in DOMAIN alerts : alerts[i].id = alert_id
    THEN CHOOSE i \in DOMAIN alerts :
            /\ alerts[i].id = alert_id
            /\ \A j \in 1..(i - 1) : alerts[j].id # alert_id
    ELSE 0

\* list.pop(index)
Pop(alerts, index) ==
    [i \in 1..(Len(alerts) - 1) |-> IF i < index THEN alerts[i] ELSE alerts[i + 1]]

\* lines 96-141
create_alert ==
    /\ alert_requests < MaxAlertRequests
    /\ alert_requests' = alert_requests + 1
    /\ \E data \in AlertData :
         IF data.kind = "none"
         THEN /\ alert_ret' = [NoResponse EXCEPT !.op = "create_alert", !.status = 500]
              /\ UNCHANGED MOCK_ALERTS
         ELSE IF data.kind = "partial"
         THEN /\ alert_ret' = [NoResponse EXCEPT !.op = "create_alert", !.status = 400]
              /\ UNCHANGED MOCK_ALERTS
         ELSE LET new_alert == [id |-> Len(MOCK_ALERTS) + 1, name |-> data.name]
              IN  /\ MOCK_ALERTS' = Append(MOCK_ALERTS, new_alert)
                  /\ alert_ret' = [NoResponse EXCEPT !.op = "create_alert",
                                                     !.status = 201,
                                                     !.alert = <<new_alert>>]
    /\ UNCHANGED <<temporalVars, scoreVars,
                   cleanVars, encVars, concVars, preVars, modelVars>>

\* lines 143-156
get_alert ==
    /\ alert_requests < MaxAlertRequests
    /\ alert_requests' = alert_requests + 1
    /\ \E alert_id \in AlertIds :
         LET i == FirstWithId(MOCK_ALERTS, alert_id)
         IN  alert_ret' = IF i = 0
                          THEN [NoResponse EXCEPT !.op = "get_alert", !.status = 404]
                          ELSE [NoResponse EXCEPT !.op = "get_alert", !.status = 200,
                                                  !.alert = <<MOCK_ALERTS[i]>>]
    /\ UNCHANGED <<MOCK_ALERTS, temporalVars, scoreVars,
                   cleanVars, encVars, concVars, preVars, modelVars>>

\* lines 184-202
delete_alert ==
    /\ alert_requests < MaxAlertRequests
    /\ alert_requests' = alert_requests + 1
    /\ \E alert_id \in AlertIds :
         LET alert_index == FirstWithId(MOCK_ALERTS, alert_id)
         IN  IF alert_index = 0
             THEN /\ alert_ret' = [NoResponse EXCEPT !.op = "delete_alert",
                                                     !.status = 404]
                  /\ UNCHANGED MOCK_ALERTS
             ELSE /\ MOCK_ALERTS' = Pop(MOCK_ALERTS, alert_index)
                  /\ alert_ret' = [NoResponse EXCEPT !.op = "delete_alert",
                                                     !.status = 200,
                                                     !.alert = <<MOCK_ALERTS[alert_index]>>]
    /\ UNCHANGED <<temporalVars, scoreVars,
                   cleanVars, encVars, concVars, preVars, modelVars>>

OtherIdle == TemporalIdle /\ ScoreIdle /\ AlertIdle

\* the timestamps of the first row, and those of the rows after it
FirstTimestamps ==
    {Timestamp(h, m, d) : h \in 0..23, m \in {0, 59}, d \in {0, 5}}
        \cup {Unparseable, NullTimestamp}
MoreTimestamps == {Timestamp(12, 30, 2), Unparseable, NullTimestamp}

TimestampSeries ==
    {<<t>> \o rest : t \in FirstTimestamps,
                     rest \in UNION {[1..n -> MoreTimestamps] : n \in 0..(MaxTsRows - 1)}}

ExtractTemporal ==
    /\ temporal_ret = NotExtracted
    /\ temporal_ret' = extract_temporal_features(timestamps)
    /\ UNCHANGED <<timestamps, temporal_again, scoreVars, alertVars,
                   cleanVars, encVars, concVars, preVars, modelVars>>

ExtractTemporalAgain ==
    /\ temporal_ret # NotExtracted
    /\ temporal_again = NotExtracted
    /\ temporal_again' = extract_temporal_features(timestamps)
    /\ UNCHANGED <<timestamps, temporal_ret, scoreVars, alertVars,
                   cleanVars, encVars, concVars, preVars, modelVars>>

-----------------------------------------------------------------------------
(* The preprocessor over any sequence of preprocess_logs and load calls      *)

\* __init__: the dense backend loaded or failed to load (lines 42-50)
Init ==
    /\ CleanIdle /\ EncIdle /\ ConcIdle /\ ModelIdle /\ OtherIdle
    /\ tfidf_vectorizer = NoVectorizer
    /\ scaler = NewScaler
    /\ use_bert \in BOOLEAN
    /\ pkl = NoFile
    /\ ret = NoRet
    /\ calls = 0
    /\ tfidf_fits = 0

Next == preprocess_logs \/ load_processed_data

Spec == Init /\ [][Next]_vars

\* the preprocessor over any sequence of get_tfidf_features, save and load calls
NextTfidf == GetTfidfFeatures \/ save_processed_data \/ load_processed_data

SpecTfidf == Init /\ [][NextTfidf]_vars

-----------------------------------------------------------------------------
(* The other specifications                                                 *)

\* the normaliser on each input, once and twice
InitClean ==
    /\ message \in CleanInputs
    /\ once = <<>> /\ twice = <<>> /\ cstage = "new"
    /\ EncIdle /\ ConcIdle /\ PreIdle /\ ModelIdle /\ OtherIdle

NextClean == CleanOnce \/ CleanTwice

SpecClean == InitClean /\ [][NextClean]_vars

\* a preprocessor's encoder over any sequence of encode calls
InitEnc == CleanIdle /\ EncIdle /\ ConcIdle /\ PreIdle /\ ModelIdle /\ OtherIdle

NextEnc == encode_categorical_features

SpecEnc == InitEnc /\ [][NextEnc]_vars

\* two concurrent encode calls on a column fitted before
InitConc ==
    /\ CleanIdle /\ PreIdle /\ ModelIdle /\ OtherIdle
    /\ \E S \in SUBSET ColumnValues("level") :
         /\ S # {}
         /\ label_encoders =
               [c \in CatCols |->
                  IF c = "level"
                  THEN [has |-> TRUE, classes_ |-> SortedUnique({AsStr(v) : v \in S})]
                  ELSE NoEncoder]
    /\ enc_start = label_encoders
    /\ enc_ret = NoEncRet
    /\ pc = [t \in Threads |-> "known"]
    /\ t_df \in [Threads -> [1..1 -> ColumnValues("level")]]
    /\ known_values = [t \in Threads |-> {}]
    /\ t_ret = [t \in Threads |-> <<>>]

NextConc == \E t \in Threads : ReadKnown(t) \/ ExtendClasses(t) \/ TransformColumn(t)

SpecConc == InitConc /\ [][NextConc]_vars

\* a model bank over any sequence of training and prediction calls
InitModel == CleanIdle /\ EncIdle /\ ConcIdle /\ PreIdle /\ ModelIdle /\ OtherIdle

NextModel ==
    \/ train_classification_models
    \/ train_anomaly_detection_models
    \/ predict_log_level
    \/ detect_anomalies

\* extract_temporal_features on each series of timestamps, once and again
InitTemporal ==
    /\ CleanIdle /\ EncIdle /\ ConcIdle /\ PreIdle /\ ModelIdle /\ ScoreIdle /\ AlertIdle
    /\ timestamps \in TimestampSeries
    /\ temporal_ret = NotExtracted
    /\ temporal_again = NotExtracted

NextTemporal == ExtractTemporal \/ ExtractTemporalAgain

SpecTemporal == InitTemporal /\ [][NextTemporal]_vars

SpecModel == InitModel /\ [][NextModel]_vars

\* a model bank after its first train_classification_models call
\* the training outcomes that differ in the registry they leave: "after" fails
\* once the model is registered and leaves what "ok" leaves
TrainHowRegistry == {"ok", "fit"}

InitTune ==
    /\ CleanIdle /\ EncIdle /\ ConcIdle /\ PreIdle /\ OtherIdle
    /\ \E how \in [1..Len(ClassifierNames) -> TrainHowRegistry] :
         LET st == TrainLoop([models |-> [n \in ClsNames |-> NotRegistered],
                              raised |-> FALSE], ClassifierNames, 1, how, 1)
         IN  /\ classification_models = st.models
             /\ cls_order = KeyOrder(<<>>, ClassifierNames, st.models)
             /\ train_ret = [op |-> "train_classification_models",
                             raised |-> st.raised, how |-> how,
                             returned |-> st.models]
    /\ trainings = 1
    /\ anomaly_models = [n \in AnoNames |-> NotRegistered]
    /\ ano_order = <<>>
    /\ model_performance = NoPerformance
    /\ is_trained = FALSE
    /\ tunings = 0
    /\ saves = 0
    /\ call_ret = NoCall
    /\ cls_files = [n \in ClsNames |-> NotRegistered]
    /\ ano_files = [n \in AnoNames |-> NotRegistered]
    /\ perf_file = <<>>

\* the trained bank over any sequence of evaluation and tuning calls
NextTune == evaluate_classification_models \/ hyperparameter_tuning

SpecTune == InitTune /\ [][NextTune]_vars

\* a model bank after one training call of each kind
InitEval ==
    /\ CleanIdle /\ EncIdle /\ ConcIdle /\ PreIdle /\ OtherIdle
    /\ \E how \in [1..Len(ClassifierNames) -> TrainHow] :
         LET st == TrainLoop([models |-> [n \in ClsNames |-> NotRegistered],
                              raised |-> FALSE], ClassifierNames, 1, how, 1)
         IN  /\ classification_models = st.models
             /\ cls_order = KeyOrder(<<>>, ClassifierNames, st.models)
    /\ \E how \in [1..Len(AnomalyNames) -> TrainHow] :
         LET st == TrainLoop([models |-> [n \in AnoNames |-> NotRegistered],
                              raised |-> FALSE], AnomalyNames, 1, how, 2)
         IN  /\ anomaly_models = st.models
             /\ ano_order = KeyOrder(<<>>, AnomalyNames, st.models)
             /\ train_ret = [op |-> "train_anomaly_detection_models",
                             raised |-> st.raised, how |-> how,
                             returned |-> st.models]
    /\ trainings = 2
    /\ model_performance = NoPerformance
    /\ is_trained = FALSE
    /\ tunings = 0
    /\ saves = 0
    /\ call_ret = NoCall
    /\ cls_files = [n \in ClsNames |-> NotRegistered]
    /\ ano_files = [n \in AnoNames |-> NotRegistered]
    /\ perf_file = <<>>

\* the trained bank over any sequence of evaluation calls
NextEval == evaluate_classification_models \/ evaluate_anomaly_models

SpecEval == InitEval /\ [][NextEval]_vars

\* main, lines 418-443: a new bank runs the pipeline once, each call after
\* the one before it has returned
MainTrainClassifiers == trainings = 0 /\ train_classification_models

MainTrainAnomaly == trainings = 1 /\ train_anomaly_detection_models

MainEvaluateClassifiers ==
    /\ trainings = 2 /\ call_ret = NoCall
    /\ evaluate_classification_models

MainEvaluateAnomaly ==
    /\ call_ret.op = "evaluate_classification_models"
    /\ evaluate_anomaly_models

MainTune ==
    /\ call_ret.op = "evaluate_anomaly_models"
    /\ hyperparameter_tuning
    /\ call_ret'.model_name = "random_forest"

MainSave ==
    /\ call_ret.op = "hyperparameter_tuning"
    /\ save_models

NextMain ==
    \/ MainTrainClassifiers
    \/ MainTrainAnomaly
    \/ MainEvaluateClassifiers
    \/ MainEvaluateAnomaly
    \/ MainTune
    \/ MainSave

SpecMain == InitModel /\ [][NextMain]_vars

\* the trained bank scored by concurrent threads
NextScore ==
    \E t \in Scorers : ScoreBegin(t) \/ ScoreCheck(t) \/ ScoreFetch(t) \/ ScorePredict(t)

SpecScore == InitEval /\ [][NextScore]_vars

\* the alerts blueprint over any sequence of requests
InitAlerts ==
    /\ CleanIdle /\ EncIdle /\ ConcIdle /\ PreIdle /\ ModelIdle
    /\ TemporalIdle /\ ScoreIdle /\ AlertIdle

NextAlerts == create_alert \/ get_alert \/ delete_alert

SpecAlerts == InitAlerts /\ [][NextAlerts]_vars

\* model banks constructed, trained, saved and loaded under one path prefix
InitStore == CleanIdle /\ EncIdle /\ ConcIdle /\ PreIdle /\ ModelIdle /\ OtherIdle

NextStore ==
    \/ EnhancedLogAnalysisModel
    \/ train_classification_models
    \/ train_anomaly_detection_models
    \/ save_models
    \/ load_models

SpecStore == InitStore /\ [][NextStore]_vars

\* a trained model bank and the banks constructed after it, evaluated, saved
\* and loaded under one path prefix
NextReport ==
    \/ EnhancedLogAnalysisModel
    \/ evaluate_classification_models
    \/ save_models
    \/ load_models

SpecReport == InitTune /\ [][NextReport]_vars

-----------------------------------------------------------------------------
(* The claims                                                               *)

\* Series.unique(): the distinct values in the order they first appear
RECURSIVE FirstSeen(_)
FirstSeen(vals) ==
    IF vals = <<>> THEN <<>>
    ELSE LET init == FirstSeen(SubSeq(vals, 1, Len(vals) - 1))
             v    == vals[Len(vals)]
         IN  IF v \in Range(init) THEN init ELSE Append(init, v)

StrsOf(vals) == [i \in DOMAIN vals |-> AsStr(vals[i])]

\* the subsequence of vals whose elements are not in S
RECURSIVE Without(_, _)
Without(vals, S) ==
    IF vals = <<>> THEN <<>>
    ELSE IF vals[1] \in S THEN Without(Tail(vals), S)
    ELSE <<vals[1]>> \o Without(Tail(vals), S)

\* C1: over any sequence of encode_categorical_features calls, a category that
\* has an index keeps it: classes_ is only ever extended at its end, never
\* shrunk and never reordered.
C1_IndexNeverChanges ==
    [][\A c \in CatCols :
         LET before == label_encoders[c].classes_
             after  == label_encoders'[c].classes_
         IN  /\ Len(after) >= Len(before)
             /\ \A i \in 1..Len(before) : after[i] = before[i]]_vars

\* C2: the first fit of a column numbers its distinct values 0..k-1 in the
\* order they were first seen, and a later call appends the values it has not
\* seen before, in that order, after the ones known before the call, whose
\* indices stay (fit on a, b and then encode c: c is 2 and a is still 0).
C2_FirstSeenOrder ==
    [][\A c \in enc_ret'.df.cols :
         LET before == label_encoders[c]
             strs   == StrsOf(ColOf(enc_ret'.df, c))
         IN  label_encoders'[c].classes_ =
                IF before.has
                THEN before.classes_ \o FirstSeen(Without(strs, Range(before.classes_)))
                ELSE FirstSeen(strs)]_vars

\* C3: when two concurrent encode calls on one column each bring a different
\* category the encoder has not seen, then once both have ended both
\* categories are in classes_ at different indices and every category known
\* before is where it was.
C3_NoLostUpdate ==
    LET start == enc_start["level"].classes_
        now   == label_encoders["level"].classes_
        v1    == AsStr(t_df[1][1])
        v2    == AsStr(t_df[2][1])
    IN  (/\ \A t \in Threads : pc[t] = "done" /\ Len(t_df[t]) = 1
         /\ v1 # v2
         /\ v1 \notin Range(start)
         /\ v2 \notin Range(start))
        => /\ v1 \in Range(now)
           /\ v2 \in Range(now)
           /\ Len(now) = Len(start) + 2
           /\ \A i \in 1..Len(start) : now[i] = start[i]

\* C4: clean_log_message is idempotent: cleaning a cleaned message gives the
\* cleaned message, placeholders included.
C4_CleanIdempotent == cstage = "twice" => twice = once

\* C5: once a preprocess_logs call has completed on a preprocessor, every later
\* call on it that returns feature matrices assembles the same columns in the
\* same order, whatever the columns of its table and its use_bert argument.
C5_WidthFixed ==
    [][(/\ ret.op = "preprocess_logs" /\ ret.outcome = "ok"
        /\ calls' = calls + 1
        /\ ret'.outcome = "ok")
       => /\ ret'.width = ret.width
          /\ ret'.layout = ret.layout
          /\ ret'.backend = ret.backend]_vars

\* C6: a call that assembles a matrix whose width differs from the width the
\* fitted scaler recorded fails with SchemaMismatchError, returns no matrix and
\* leaves the fitted state as it was.
C6_SchemaMismatchRaised ==
    (/\ ret.op = "preprocess_logs"
     /\ ret.scaler_before.fitted
     /\ ret.width >= 0
     /\ ret.width # ret.scaler_before.n_features_in_)
    => /\ ret.outcome = "SchemaMismatchError"
       /\ scaler = ret.scaler_before

\* C7: the rows the scaler is fitted on are rows of the training split, and a
\* later preprocess_logs call on the fitted preprocessor leaves the scaler as
\* it is.
C7_ScalerFitOnTrainOnly ==
    [][/\ (ret'.op = "preprocess_logs" /\ ret'.outcome = "ok")
            => (1..scaler'.n_samples_seen_) \subseteq ((1..ret'.n_rows) \ ret'.test_rows)
       /\ (scaler.fitted /\ calls' = calls + 1) => scaler' = scaler]_vars

\* C8: all the matrices one preprocessor assembles come from one text backend,
\* and the use_bert flag save_processed_data writes names the backend that
\* made the saved matrix.
C8_BackendNeverMixed ==
    [][/\ (ret.width >= 0 /\ calls' = calls + 1 /\ ret'.width >= 0)
            => ret'.backend = ret.backend
       /\ pkl'.exists => (pkl'.use_bert <=> pkl'.X_backend = "bert")]_vars

\* C9: when the dense backend failed to load, or fails while embedding a
\* batch, preprocess_logs does not raise for it and takes the text features of
\* every record from TF-IDF.
C9_BertFailureFallsBack ==
    /\ (ret.op = "preprocess_logs" /\ ~use_bert /\ ret.width >= 0)
          => ret.backend = "tfidf"
    /\ (ret.op = "preprocess_logs" /\ ret.bert_failed)
          => ret.outcome # "RuntimeError" /\ ret.backend = "tfidf"

\* the names a training call trains, in order
TrainedNames(op) ==
    IF op = "train_classification_models" THEN ClassifierNames ELSE AnomalyNames

\* C10: a training call does not raise when models fail to train, and every
\* model of the call that trains without failure is in the returned map,
\* bound to the artifact of this call, wherever the failing models stand in the
\* order.
C10_TrainingFailuresIsolated ==
    train_ret.op # "none" =>
        /\ ~train_ret.raised
        /\ \A i \in 1..Len(TrainedNames(train_ret.op)) :
              train_ret.how[i] = "ok" =>
                  train_ret.returned[TrainedNames(train_ret.op)[i]] = trainings

\* the first classifier failed in fit and the two after it were trained
C10_Witness ==
    /\ train_ret.op = "train_classification_models"
    /\ train_ret.how = <<"fit", "ok", "ok">>
    /\ ~train_ret.raised
    /\ Keys(train_ret.returned) = {"logistic_regression", "mlp_classifier"}


\* C11: a classifier whose training fails in a train_classification_models
\* call, in fit or in the scoring after it, has no entry in the map the call
\* returns, whatever the registry held before the call.
C11_FailedModelExcluded ==
    train_ret.op = "train_classification_models" =>
        \A i \in 1..Len(ClassifierNames) :
            train_ret.how[i] # "ok" =>
                train_ret.returned[ClassifierNames[i]] = NotRegistered

\* the entries of a returned map that are failure records, not artifacts
RecordedFailures(returned) ==
    {n \in DOMAIN returned : returned[n] \notin Nat}

\* C12: what a train_classification_models call returns records each failed
\* model under its name: the recorded failures are exactly the models whose
\* training failed.
C12_FailureRecorded ==
    train_ret.op = "train_classification_models" =>
        RecordedFailures(train_ret.returned) =
            {ClassifierNames[i] : i \in {j \in 1..Len(ClassifierNames) :
                                            train_ret.how[j] # "ok"}}

\* the registry a call looks its model up in
RegistryOf(op) ==
    IF op = "predict_log_level" THEN classification_models ELSE anomaly_models

\* C13: predict_log_level (detect_anomalies) with a name that is not in the
\* classifier (anomaly) registry raises the not-found ValueError, which names
\* the requested model and lists exactly the names in that registry, once
\* each; no prediction is returned.
C13_NotFoundListsRegistry ==
    [][(/\ call_ret' # call_ret
        /\ call_ret'.op \in {"predict_log_level", "detect_anomalies"}
        /\ call_ret'.model_name \notin Keys(RegistryOf(call_ret'.op)))
       => /\ call_ret'.outcome = "ValueError"
          /\ call_ret'.result = NotRegistered
          /\ Range(call_ret'.available) = Keys(RegistryOf(call_ret'.op))
          /\ Len(call_ret'.available) = Cardinality(Keys(RegistryOf(call_ret'.op)))]_vars

\* an absent name was asked of a classifier registry holding two models
C13_Witness ==
    /\ call_ret.op = "predict_log_level"
    /\ call_ret.model_name = "nonexistent"
    /\ call_ret.outcome = "ValueError"
    /\ Len(call_ret.available) = 2
    /\ Range(call_ret.available) = Keys(classification_models)

\* C14: a prediction or an anomaly score asked of a model bank that was never
\* trained and never loaded fails with BundleIncompleteError, an outcome other
\* than the not-found error of an unknown name.
C14_UnloadedBundleIncomplete ==
    (/\ call_ret.op \in {"predict_log_level", "detect_anomalies"}
     /\ ~is_trained
     /\ Keys(classification_models) = {} /\ Keys(anomaly_models) = {})
    => call_ret.outcome = "BundleIncompleteError"

\* a step of load_models that changes the result of the last call
LoadStep == call_ret' # call_ret /\ call_ret'.op = "load_models"

\* C15: load_models under a prefix that holds model files and no saved encoder
\* and vectorizer state fails with BundleIncompleteError and does not leave the
\* bank marked trained.
C15_MissingEncoderStateFatal ==
    [][(/\ LoadStep
        /\ Keys(cls_files) \cup Keys(ano_files) # {}
        /\ pkl = NoFile)
       => call_ret'.outcome = "BundleIncompleteError" /\ ~is_trained']_vars

\* a model bank as its constructor leaves it
Fresh ==
    /\ Keys(classification_models) = {}
    /\ Keys(anomaly_models) = {}

\* C16: when the last save_models call under the prefix completed, load_models
\* on a fresh bank registers exactly the classifier names and the anomaly
\* model names of the bundle that call saved.
C16_RoundTripNames ==
    [][(/\ LoadStep /\ Fresh
        /\ call_ret.op = "save_models" /\ call_ret.outcome = "ok")
       => /\ Keys(classification_models') = Keys(call_ret.result.cls)
          /\ Keys(anomaly_models') = Keys(call_ret.result.ano)]_vars

\* C17: when the last save_models call under the prefix failed part-way,
\* load_models on a fresh bank registers either the artifacts that were on
\* disk before that call or the artifacts that call was saving.
C17_BundleAtomic ==
    [][(/\ LoadStep /\ Fresh
        /\ call_ret.op = "save_models" /\ call_ret.outcome = "logged")
       => \/ /\ classification_models' = call_ret.result.old_cls
             /\ anomaly_models' = call_ret.result.old_ano
          \/ /\ classification_models' = call_ret.result.cls
             /\ anomaly_models' = call_ret.result.ano]_vars

\* C18: load_models with model files on disk and no performance file completes
\* without error, registers every model file, and the bank's evaluation report
\* is empty afterwards.
C18_MissingReportTolerated ==
    [][(/\ LoadStep
        /\ perf_file = <<>>
        /\ Keys(cls_files) \cup Keys(ano_files) # {})
       => /\ call_ret'.outcome = "ok"
          /\ \A n \in Keys(cls_files) : classification_models'[n] = cls_files[n]
          /\ \A n \in Keys(ano_files) : anomaly_models'[n] = ano_files[n]
          /\ model_performance' = NoPerformance]_vars

\* C19: a hyperparameter_tuning(model_name) call that succeeds registers its
\* best estimator under model_name + '_tuned' and changes no other entry of the
\* classifier registry, nor the anomaly registry, nor the evaluation report.
C19_TunedRegisteredOnly ==
    [][(tunings' = tunings + 1 /\ call_ret'.outcome = "results")
       => /\ classification_models'[Tuned(call_ret'.model_name)] = call_ret'.result
          /\ call_ret'.result # NotRegistered
          /\ \A n \in ClsNames \ {Tuned(call_ret'.model_name)} :
                classification_models'[n] = classification_models[n]
          /\ anomaly_models' = anomaly_models
          /\ model_performance' = model_performance]_vars

\* the second tuning of a trained and evaluated random forest replaced the
\* tuned artifact of the first and left the original
C19_Witness ==
    /\ call_ret.op = "hyperparameter_tuning"
    /\ call_ret.outcome = "results"
    /\ call_ret.model_name = "random_forest"
    /\ classification_models["random_forest"] = 1
    /\ classification_models["random_forest_tuned"] = 2
    /\ model_performance["random_forest"].of = 1

\* C20: a hyperparameter_tuning call that fails (no grid for the name, or the
\* grid search raises) returns the empty result and leaves the classifier
\* registry as it was.
C20_FailedTuningNoEffect ==
    [][(tunings' = tunings + 1 /\ call_ret'.outcome = "empty")
       => /\ call_ret'.result = NotRegistered
          /\ classification_models' = classification_models]_vars

\* the grid search of a tunable model failed on a bank that holds a tuned
\* model from an earlier call
C20_Witness ==
    /\ call_ret.op = "hyperparameter_tuning"
    /\ call_ret.outcome = "empty"
    /\ call_ret.model_name = "logistic_regression"
    /\ tunings = 2
    /\ classification_models["logistic_regression_tuned"] = 1

\* C21: a name registered in the classifier registry or in the anomaly
\* registry stays registered and bound to the same artifact over every
\* operation on the model bank.
C21_ArtifactsImmutable ==
    [][/\ \A n \in Keys(classification_models) :
             classification_models'[n] = classification_models[n]
       /\ \A n \in Keys(anomaly_models) :
             anomaly_models'[n] = anomaly_models[n]]_vars

\* C22: for every timestamp that parses, is_night is 1 exactly at the hours
\* 22, 23 and 0 to 6 and is_business_hours is 1 exactly at the hours 9 to 17,
\* whatever the minute; a second extraction gives the same rows.
C22_TemporalFlags ==
    (temporal_ret.raised = "") =>
        /\ \A i \in DOMAIN timestamps :
              timestamps[i].kind = "ts" =>
                 /\ temporal_ret.rows[i].is_night =
                       (IF timestamps[i].hour \in {22, 23} \cup 0..6 THEN 1 ELSE 0)
                 /\ temporal_ret.rows[i].is_business_hours =
                       (IF timestamps[i].hour \in 9..17 THEN 1 ELSE 0)
        /\ temporal_again # NotExtracted => temporal_again = temporal_ret

\* 22:00 was extracted twice, after a row at 12:30
C22_Witness ==
    /\ Len(timestamps) = 2
    /\ timestamps[1] = Timestamp(22, 0, 5)
    /\ timestamps[2].kind = "ts"
    /\ temporal_again # NotExtracted
    /\ temporal_ret.rows[1].is_night = 1
    /\ temporal_ret.rows[2].is_business_hours = 1

\* C23: a timestamp that does not parse gives InvalidTimestampError for its own
\* record only: the call does not raise and every other record of the series
\* gets its temporal features.
C23_BadTimestampLocal ==
    (temporal_ret # NotExtracted) =>
        /\ temporal_ret.raised = ""
        /\ \A i \in DOMAIN timestamps :
              IF timestamps[i].kind = "bad"
              THEN temporal_ret.rows[i] = "InvalidTimestampError"
              ELSE temporal_ret.rows[i] = TemporalRow(timestamps[i])

\* C24: a null in a categorical column is encoded with the index reserved for
\* it when the column's encoder was fitted: encoding nulls adds no category to
\* an encoder fitted on real values.
C24_NullAddsNoCategory ==
    [][\A c \in CatCols :
          (/\ label_encoders[c].has
           /\ label_encoders[c].classes_ # <<>>
           /\ AsStr(NaN) \notin Range(label_encoders[c].classes_))
          => AsStr(NaN) \notin Range(label_encoders'[c].classes_)]_vars

\* an ISO-like timestamp starts at s[i]: a date, then 'T' (in either case) or
\* whitespace, then a time
IsoLikeAt(s, i) ==
    /\ ShapeAt(Rep("D", 4) \o <<"-">> \o Rep("D", 2) \o <<"-">> \o Rep("D", 2), s, i)
    /\ i + 10 <= Len(s)
    /\ (s[i + 10] \in {"T", "t"} \/ IsSpace(s[i + 10]))
    /\ ShapeAt(Rep("D", 2) \o <<":">> \o Rep("D", 2) \o <<":">> \o Rep("D", 2), s, i + 11)

Contains(s, sub) ==
    \E i \in 1..(Len(s) - Len(sub) + 1) : SubSeq(s, i, i + Len(sub) - 1) = sub

TimestampPlaceholder == <<"[", "T", "I", "M", "E", "S", "T", "A", "M", "P", "]">>

\* C25: every ISO-like timestamp of a message, with 'T' or with whitespace
\* between date and time, is replaced by the timestamp placeholder: the cleaned
\* message holds the placeholder and no timestamp, and no later pattern has
\* rewritten the timestamp's parts instead.
C25_TimestampsReplaced ==
    (cstage \in {"once", "twice"} /\ message.isStr
       /\ \E i \in 1..Len(message.val) : IsoLikeAt(message.val, i))
    => /\ Contains(once, TimestampPlaceholder)
       /\ ~ \E j \in 1..Len(once) : IsoLikeAt(once, j)

\* C26: evaluate_classification_models does not raise and returns one entry for
\* each registered classifier and no other: an error entry when that model's
\* evaluation fails, a metrics entry otherwise, whose AUC is None when the
\* probabilities or the AUC computation are not to be had; each entry depends
\* on its own model only.  evaluate_anomaly_models likewise.
C26_EvaluationIsolated ==
    [][(call_ret' # call_ret)
       => /\ call_ret'.op = "evaluate_classification_models"
             => /\ call_ret'.outcome = "ok"
                /\ \A n \in ClsNames :
                     call_ret'.result[n] =
                        IF n \notin Keys(classification_models) THEN NoEntry
                        ELSE [of |-> classification_models[n],
                              error |-> call_ret'.how[n] = "fail",
                              auc |-> call_ret'.how[n] = "ok"]
          /\ call_ret'.op = "evaluate_anomaly_models"
             => /\ call_ret'.outcome = "ok"
                /\ DOMAIN call_ret'.result = Keys(anomaly_models)
                /\ \A n \in Keys(anomaly_models) :
                     call_ret'.result[n] = [of |-> anomaly_models[n],
                                            error |-> call_ret'.how[n] = "fail"]]_vars

\* three classifiers evaluated: one scored in full, one without AUC, one failed
C26_Witness ==
    /\ call_ret.op = "evaluate_classification_models"
    /\ call_ret.how = [n \in Range(ClassifierNames) |->
                         CASE n = "random_forest" -> "fail"
                           [] n = "logistic_regression" -> "auc"
                           [] OTHER -> "ok"]
    /\ model_performance["random_forest"].error
    /\ ~model_performance["logistic_regression"].error
    /\ ~model_performance["logistic_regression"].auc
    /\ model_performance["mlp_classifier"].auc

\* C27: the sparse backend fits at most once per preprocessor: over any sequence
\* of get_tfidf_features, save_processed_data and load_processed_data calls on
\* one preprocessor, at most one call fits a vocabulary; every other call
\* transforms with the vocabulary it finds.
C27_FitsAtMostOnce == tfidf_fits <= 1

\* C28: scoring is read-only: no step of a predict_log_level or
\* detect_anomalies call, whether the call succeeds or ends in the not-found
\* error, changes the classifier registry, the anomaly registry, their key
\* order, the evaluation report or is_trained; and whatever the interleaving of
\* the threads, each call returns what the same call returns when run alone.
C28_ScoringReadOnly ==
    [][/\ UNCHANGED <<classification_models, anomaly_models, cls_order, ano_order,
                      model_performance, is_trained>>
       /\ \A t \in Scorers :
            s_pc'[t] = "done"
              => s_ret'[t] = Lookup(s_req'[t].op, RegistryFor(s_req'[t].op),
                                    OrderFor(s_req'[t].op), s_req'[t].model_name)]_vars

\* two threads inside predict_log_level for the same registered model: one has
\* returned its predictions while the other is still between lookup and predict
C28_Witness ==
    /\ s_req[1] = [op |-> "predict_log_level", model_name |-> "random_forest"]
    /\ s_req[2] = s_req[1]
    /\ s_pc[1] = "predict"
    /\ s_pc[2] = "done"
    /\ s_ret[2].outcome = "ok"
    /\ s_ret[2].result = s_model[1]

\* C29: after main's pipeline (train classifiers, train anomaly detectors,
\* evaluate both, tune, save) a save that wrote every file leaves a performance
\* report with an entry for each classifier file, the '_tuned' one included,
\* and for each anomaly detector file.
C29_SavedArtifactsReported ==
    (call_ret.op = "save_models" /\ call_ret.outcome = "ok")
    => \A n \in Keys(cls_files) \cup Keys(ano_files) :
          /\ n \in DOMAIN perf_file[1]
          /\ perf_file[1][n] # NoEntry

\* C30: alert ids are unique: after any sequence of create_alert and
\* delete_alert requests no two alerts of the collection have the same id.
C30_AlertIdsUnique ==
    \A i, j \in DOMAIN MOCK_ALERTS :
        i # j => MOCK_ALERTS[i].id # MOCK_ALERTS[j].id

====
